---- MODULE Spec2Model ----
(***************************************************************************)
(* Model of art_board_server.py: a local static-file server that locates   *)
(* (and, when packaged, stages) a directory, binds 127.0.0.1:8080, starts  *)
(* a delayed browser launch and serves until interrupted.                  *)
(*                                                                         *)
(* Three specifications share the variables:                               *)
(*   Spec         the life cycle of main()                                 *)
(*   SpecHandler  the responses QuietHandler writes                        *)
(*   SpecMime     QuietHandler.guess_type as a function of the path        *)
(***************************************************************************)
EXTENDS Integers, Sequences, FiniteSets, TLC

\* ------------------------------------------------------------------ bounds
MaxItems == 2        \* entries in the bundled directory
MaxRequests == 2     \* requests handled by one run of the accept loop

\* --------------------------------------------------------------- constants
PORT == 8080
HOST == "127.0.0.1"
WSAEADDRINUSE == 10048

VARIABLES
    \* environment of main()
    frozen,          \* getattr(sys, 'frozen', False)
    fs,              \* directories that exist
    nItems,          \* os.listdir(bundled_path): number of entries
    \* main()
    pc,              \* position of the main thread
    hooks,           \* atexit registrations, in order
    temp_dir,        \* the global _temp_dir (None is <<>>)
    bundled_path,    \* extract_to_temp's local
    serve_path,      \* main's local (None is <<>>)
    cwd,             \* process working directory
    copied,          \* entries copied so far
    mkdtempCalls,    \* number of temporary directories created
    listener,        \* a socket is bound to (HOST, PORT) and listening
    boundTo,         \* address the listener is bound to
    reuseAtBind,     \* SO_REUSEADDR was set on the socket when bind() ran
    allow_reuse_address, \* httpd.allow_reuse_address as read by server_bind
    bindAttempts,    \* number of bind() calls
    error,           \* the OSError caught by main
    message,         \* what main printed for the error
    prompted,        \* input() has been called
    ackReceived,     \* input() returned (Enter was pressed)
    exitCode,        \* process exit status (-1 while running)
    served,          \* requests handled by the accept loop
    servedMissing,   \* a request was handled while serve_path did not exist
    cleanupRan,      \* cleanup_temp has been called by the exit machinery
    rmtreeFailed,    \* shutil.rmtree raised inside cleanup_temp
    \* open_browser thread
    threads,         \* threads started by open_browser_delayed
    launcher,        \* state of the open_browser thread
    launches,        \* calls of webbrowser.open
    startedBound,    \* the listener was bound when the thread was started
    \* QuietHandler, one request
    hpc,             \* position inside the handling of one request
    req,             \* the parsed request
    buf,             \* _headers_buffer
    wire,            \* what has been written to the connection
    nBaseline,       \* header lines buffered by the baseline before end_headers
    \* guess_type
    gpath,           \* path given to guess_type
    gtype            \* value guess_type returned

envVars == <<frozen, fs, nItems>>
mainVars == <<pc, hooks, temp_dir, bundled_path, serve_path, cwd, copied,
              mkdtempCalls, listener, boundTo, reuseAtBind,
              allow_reuse_address, bindAttempts, error, message, prompted,
              ackReceived, exitCode, served, servedMissing, cleanupRan,
              rmtreeFailed>>
threadVars == <<threads, launcher, launches, startedBound>>
handlerVars == <<hpc, req, buf, wire, nBaseline>>
mimeVars == <<gpath, gtype>>
vars == <<envVars, mainVars, threadVars, handlerVars, mimeVars>>

\* ------------------------------------------------------------------- paths
None == <<>>
join(p, name) == Append(p, name)
script_dir == <<"script_dir">>
MEIPASS == <<"_MEIPASS">>
TempName == <<"tmp", "artboard_1">>

\* the candidate list of get_bundled_files_path, in its order
Folders == <<"build", "dist", "public", "www", "out", "static", "static_files">>
FolderSet == {Folders[i] : i \in 1..Len(Folders)}

isdir(files, p) == p \in files


\* --------------------------------------------------------- File Locator
\* variant: the loop has no early return, the last existing candidate wins
RECURSIVE FirstExisting_last(_, _)
FirstExisting_last(files, i) ==
    IF i > Len(Folders) THEN script_dir
    ELSE LET later == FirstExisting_last(files, i + 1) IN
         IF later # script_dir THEN later
         ELSE IF isdir(files, join(script_dir, Folders[i]))
              THEN join(script_dir, Folders[i])
              ELSE script_dir

RECURSIVE FirstExisting(_, _)
FirstExisting(files, i) ==
    IF i > Len(Folders) THEN script_dir
    ELSE IF isdir(files, join(script_dir, Folders[i]))
         THEN join(script_dir, Folders[i])
         ELSE FirstExisting(files, i + 1)

get_bundled_files_path(isFrozen, files) ==
    IF isFrozen
    THEN IF isdir(files, join(MEIPASS, "static_files"))
         THEN join(MEIPASS, "static_files")
         ELSE MEIPASS
    ELSE FirstExisting(files, 1)

\* ------------------------------------------------------------ cleanup_temp
\* variant: the existence test is inverted, so an existing directory is kept
cleanup_temp_inverted(tdir, files, ok) ==
    IF tdir # None /\ tdir \notin files
    THEN IF ok THEN [files |-> files \ {tdir}, failed |-> FALSE]
               ELSE [files |-> files, failed |-> TRUE]
    ELSE [files |-> files, failed |-> FALSE]

\* ok: whether shutil.rmtree succeeds; a failure is swallowed by the except
cleanup_temp(tdir, files, ok) ==
    IF tdir # None /\ tdir \in files
    THEN IF ok THEN [files |-> files \ {tdir}, failed |-> FALSE]
               ELSE [files |-> files, failed |-> TRUE]
    ELSE [files |-> files, failed |-> FALSE]

\* ------------------------------------------------------------- bind errors
BindOutcomes == {"ok", "EADDRINUSE", "WSAEADDRINUSE", "EACCES"}
NoError == [errno |-> 0, strerror |-> ""]
OSErrorOf(outcome) ==
    CASE outcome = "EADDRINUSE" ->
           [errno |-> 98, strerror |-> "Address already in use"]
      [] outcome = "WSAEADDRINUSE" ->
           [errno |-> WSAEADDRINUSE,
            strerror |-> "Only one usage of each socket address is normally permitted"]
      [] outcome = "EACCES" ->
           [errno |-> 13, strerror |-> "Permission denied"]
      [] OTHER -> NoError

\* variant: only the message text is tested, not the Windows error number
IsAddressInUse_textonly(e) ==
    e.strerror = "Address already in use"

\* the test of main's except OSError branch
IsAddressInUse(e) ==
    e.strerror = "Address already in use" \/ e.errno = WSAEADDRINUSE

\* ------------------------------------------------------------------- Init
InitEnv ==
    \/ /\ frozen = FALSE
       /\ nItems = 0
       /\ \E D \in SUBSET FolderSet :
             fs = {script_dir} \cup {join(script_dir, f) : f \in D}
    \/ /\ frozen = TRUE
       /\ nItems \in 0..MaxItems
       /\ \E D \in {{}, {"build", "static_files"}} :
          \E S \in SUBSET {join(MEIPASS, "static_files")} :
             fs = {script_dir, MEIPASS} \cup S
                  \cup {join(script_dir, f) : f \in D}

InitMain ==
    /\ pc = "start"
    /\ hooks = <<>>
    /\ temp_dir = None
    /\ bundled_path = None
    /\ serve_path = None
    /\ cwd = <<"launch_dir">>
    /\ copied = 0
    /\ mkdtempCalls = 0
    /\ listener = FALSE
    /\ boundTo = <<>>
    /\ reuseAtBind = FALSE
    /\ allow_reuse_address = FALSE
    /\ bindAttempts = 0
    /\ error = NoError
    /\ message = "none"
    /\ prompted = FALSE
    /\ ackReceived = FALSE
    /\ exitCode = -1
    /\ served = 0
    /\ servedMissing = FALSE
    /\ cleanupRan = FALSE
    /\ rmtreeFailed = FALSE

InitThread ==
    /\ threads = 0
    /\ launcher = "none"
    /\ launches = 0
    /\ startedBound = FALSE

NoRequest == [method |-> "none", version |-> "none", target |-> "none"]

InitHandler ==
    /\ hpc = "idle"
    /\ req = NoRequest
    /\ buf = <<>>
    /\ wire = <<>>
    /\ nBaseline = 0

InitMimeIdle ==
    /\ gpath = <<>>
    /\ gtype = "none"

Init == InitEnv /\ InitMain /\ InitThread /\ InitHandler /\ InitMimeIdle

\* ----------------------------------------------------------------- main()
others == <<threadVars, handlerVars, mimeVars>>

\* atexit.register(cleanup_temp)
RegisterCleanup ==
    /\ pc = "start"
    /\ hooks' = Append(hooks, "cleanup_temp")
    /\ pc' = "extract"
    /\ UNCHANGED <<envVars, temp_dir, bundled_path, serve_path, cwd, copied,
                   mkdtempCalls, listener, boundTo, reuseAtBind,
                   allow_reuse_address, bindAttempts, error, message, prompted,
                   ackReceived, exitCode, served, servedMissing, cleanupRan,
                   rmtreeFailed, others>>

\* extract_to_temp: bundled_path = get_bundled_files_path()
Locate ==
    /\ pc = "extract"
    /\ bundled_path' = get_bundled_files_path(frozen, fs)
    /\ pc' = "extract_check"
    /\ UNCHANGED <<envVars, hooks, temp_dir, serve_path, cwd, copied,
                   mkdtempCalls, listener, boundTo, reuseAtBind,
                   allow_reuse_address, bindAttempts, error, message, prompted,
                   ackReceived, exitCode, served, servedMissing, cleanupRan,
                   rmtreeFailed, others>>

\* variant: the global is assigned before the frozen test
ExtractUnfrozen_global ==
    /\ pc = "extract_check"
    /\ ~frozen
    /\ temp_dir' = bundled_path
    /\ serve_path' = bundled_path
    /\ pc' = "chdir"
    /\ UNCHANGED <<envVars, hooks, bundled_path, cwd, copied,
                   mkdtempCalls, listener, boundTo, reuseAtBind,
                   allow_reuse_address, bindAttempts, error, message, prompted,
                   ackReceived, exitCode, served, servedMissing, cleanupRan,
                   rmtreeFailed, others>>

\* extract_to_temp, not frozen: return bundled_path
ExtractUnfrozen ==
    /\ pc = "extract_check"
    /\ ~frozen
    /\ serve_path' = bundled_path
    /\ pc' = "chdir"
    /\ UNCHANGED <<envVars, hooks, temp_dir, bundled_path, cwd, copied,
                   mkdtempCalls, listener, boundTo, reuseAtBind,
                   allow_reuse_address, bindAttempts, error, message, prompted,
                   ackReceived, exitCode, served, servedMissing, cleanupRan,
                   rmtreeFailed, others>>

\* extract_to_temp, frozen: _temp_dir = tempfile.mkdtemp(prefix='artboard_')
Mkdtemp ==
    /\ pc = "extract_check"
    /\ frozen
    /\ temp_dir' = TempName
    /\ fs' = fs \cup {TempName}
    /\ mkdtempCalls' = mkdtempCalls + 1
    /\ pc' = "copy"
    /\ UNCHANGED <<frozen, nItems, hooks, bundled_path, serve_path, cwd, copied,
                   listener, boundTo, reuseAtBind,
                   allow_reuse_address, bindAttempts, error, message, prompted,
                   ackReceived, exitCode, served, servedMissing, cleanupRan,
                   rmtreeFailed, others>>

\* extract_to_temp: one iteration of the copy loop succeeds
CopyItem ==
    /\ pc = "copy"
    /\ copied < nItems
    /\ copied' = copied + 1
    /\ UNCHANGED <<envVars, pc, hooks, temp_dir, bundled_path, serve_path, cwd,
                   mkdtempCalls, listener, boundTo, reuseAtBind,
                   allow_reuse_address, bindAttempts, error, message, prompted,
                   ackReceived, exitCode, served, servedMissing, cleanupRan,
                   rmtreeFailed, others>>

\* extract_to_temp: copytree/copy2 raises; nothing catches it, main unwinds
CopyFail ==
    /\ pc = "copy"
    /\ copied < nItems
    /\ pc' = "exiting"
    /\ exitCode' = 1
    /\ UNCHANGED <<envVars, hooks, temp_dir, bundled_path, serve_path, cwd,
                   copied, mkdtempCalls, listener, boundTo, reuseAtBind,
                   allow_reuse_address, bindAttempts, error, message, prompted,
                   ackReceived, served, servedMissing, cleanupRan,
                   rmtreeFailed, others>>

\* extract_to_temp: return _temp_dir
ExtractReturn ==
    /\ pc = "copy"
    /\ copied = nItems
    /\ serve_path' = temp_dir
    /\ pc' = "chdir"
    /\ UNCHANGED <<envVars, hooks, temp_dir, bundled_path, cwd, copied,
                   mkdtempCalls, listener, boundTo, reuseAtBind,
                   allow_reuse_address, bindAttempts, error, message, prompted,
                   ackReceived, exitCode, served, servedMissing, cleanupRan,
                   rmtreeFailed, others>>

\* banner, os.chdir(serve_path)
Chdir ==
    /\ pc = "chdir"
    /\ cwd' = serve_path
    /\ pc' = "bind"
    /\ UNCHANGED <<envVars, hooks, temp_dir, bundled_path, serve_path, copied,
                   mkdtempCalls, listener, boundTo, reuseAtBind,
                   allow_reuse_address, bindAttempts, error, message, prompted,
                   ackReceived, exitCode, served, servedMissing, cleanupRan,
                   rmtreeFailed, others>>

\* socketserver.TCPServer((HOST, PORT), handler): the constructor creates the
\* socket, reads allow_reuse_address, binds and listens; on an error it closes
\* the socket and raises
Bind ==
    /\ pc = "bind"
    /\ bindAttempts' = bindAttempts + 1
    /\ \E outcome \in BindOutcomes :
          IF outcome = "ok"
          THEN /\ listener' = TRUE
               /\ boundTo' = <<HOST, PORT>>
               /\ reuseAtBind' = allow_reuse_address
               /\ pc' = "bound"
               /\ error' = error
          ELSE /\ error' = OSErrorOf(outcome)
               /\ pc' = "except_oserror"
               /\ UNCHANGED <<listener, boundTo, reuseAtBind>>
    /\ UNCHANGED <<envVars, hooks, temp_dir, bundled_path, serve_path, cwd,
                   copied, mkdtempCalls, allow_reuse_address, message, prompted,
                   ackReceived, exitCode, served, servedMissing, cleanupRan,
                   rmtreeFailed, others>>

\* httpd.allow_reuse_address = True
SetAllowReuse ==
    /\ pc = "bound"
    /\ allow_reuse_address' = TRUE
    /\ pc' = "launch"
    /\ UNCHANGED <<envVars, hooks, temp_dir, bundled_path, serve_path, cwd,
                   copied, mkdtempCalls, listener, boundTo, reuseAtBind,
                   bindAttempts, error, message, prompted,
                   ackReceived, exitCode, served, servedMissing, cleanupRan,
                   rmtreeFailed, others>>

\* variant: the thread is joined before main goes on
open_browser_delayed_join ==
    /\ pc = "launch"
    /\ threads' = threads + 1
    /\ \E ok \in BOOLEAN : launcher' = (IF ok THEN "opened" ELSE "failed")
    /\ launches' = launches + 1
    /\ startedBound' = listener
    /\ pc' = "serving"
    /\ UNCHANGED <<envVars, hooks, temp_dir, bundled_path, serve_path, cwd,
                   copied, mkdtempCalls, listener, boundTo, reuseAtBind,
                   allow_reuse_address, bindAttempts, error, message, prompted,
                   ackReceived, exitCode, served, servedMissing, cleanupRan,
                   rmtreeFailed, handlerVars, mimeVars>>

\* open_browser_delayed(url): start the daemon thread and return; main goes
\* on to httpd.serve_forever()
open_browser_delayed ==
    /\ pc = "launch"
    /\ threads' = threads + 1
    /\ launcher' = "sleeping"
    /\ startedBound' = listener
    /\ pc' = "serving"
    /\ UNCHANGED <<envVars, hooks, temp_dir, bundled_path, serve_path, cwd,
                   copied, mkdtempCalls, listener, boundTo, reuseAtBind,
                   allow_reuse_address, bindAttempts, error, message, prompted,
                   ackReceived, exitCode, served, servedMissing, cleanupRan,
                   rmtreeFailed, launches, handlerVars, mimeVars>>

\* serve_forever: one request is accepted and handled from serve_path
HandleRequest ==
    /\ pc = "serving"
    /\ served < MaxRequests
    /\ served' = served + 1
    /\ servedMissing' = (servedMissing \/ ~isdir(fs, serve_path))
    /\ UNCHANGED <<envVars, pc, hooks, temp_dir, bundled_path, serve_path, cwd,
                   copied, mkdtempCalls, listener, boundTo, reuseAtBind,
                   allow_reuse_address, bindAttempts, error, message, prompted,
                   ackReceived, exitCode, cleanupRan, rmtreeFailed, others>>

\* variant: the server is not used as a context manager, nothing closes it
KeyboardInterrupt_noclose ==
    /\ pc = "serving"
    /\ pc' = "except_kbd"
    /\ UNCHANGED <<envVars, hooks, temp_dir, bundled_path, serve_path, cwd,
                   copied, mkdtempCalls, listener, boundTo, reuseAtBind,
                   allow_reuse_address, bindAttempts, error, message, prompted,
                   ackReceived, exitCode, served, servedMissing, cleanupRan,
                   rmtreeFailed, others>>

\* Ctrl+C in serve_forever: the with block closes the server, then the
\* except KeyboardInterrupt branch is entered
KeyboardInterrupt ==
    /\ pc = "serving"
    /\ listener' = FALSE
    /\ pc' = "except_kbd"
    /\ UNCHANGED <<envVars, hooks, temp_dir, bundled_path, serve_path, cwd,
                   copied, mkdtempCalls, boundTo, reuseAtBind,
                   allow_reuse_address, bindAttempts, error, message, prompted,
                   ackReceived, exitCode, served, servedMissing, cleanupRan,
                   rmtreeFailed, others>>

\* print("Server stopped."); main returns
PrintStopped ==
    /\ pc = "except_kbd"
    /\ pc' = "exiting"
    /\ exitCode' = 0
    /\ UNCHANGED <<envVars, hooks, temp_dir, bundled_path, serve_path, cwd,
                   copied, mkdtempCalls, listener, boundTo, reuseAtBind,
                   allow_reuse_address, bindAttempts, error, message, prompted,
                   ackReceived, served, servedMissing, cleanupRan,
                   rmtreeFailed, others>>

\* except OSError: print the message, call input()
ReportOSError ==
    /\ pc = "except_oserror"
    /\ message' = (IF IsAddressInUse(error) THEN "in_use" ELSE "generic")
    /\ prompted' = TRUE
    /\ pc' = "input"
    /\ UNCHANGED <<envVars, hooks, temp_dir, bundled_path, serve_path, cwd,
                   copied, mkdtempCalls, listener, boundTo, reuseAtBind,
                   allow_reuse_address, bindAttempts, error,
                   ackReceived, exitCode, served, servedMissing, cleanupRan,
                   rmtreeFailed, others>>

\* input() returns: Enter was pressed; main returns
PressEnter ==
    /\ pc = "input"
    /\ ackReceived' = TRUE
    /\ pc' = "exiting"
    /\ exitCode' = 0
    /\ UNCHANGED <<envVars, hooks, temp_dir, bundled_path, serve_path, cwd,
                   copied, mkdtempCalls, listener, boundTo, reuseAtBind,
                   allow_reuse_address, bindAttempts, error, message, prompted,
                   served, servedMissing, cleanupRan, rmtreeFailed, others>>

\* input() raises (EOFError on a closed stdin, KeyboardInterrupt): uncaught
InputRaises ==
    /\ pc = "input"
    /\ pc' = "exiting"
    /\ exitCode' = 1
    /\ UNCHANGED <<envVars, hooks, temp_dir, bundled_path, serve_path, cwd,
                   copied, mkdtempCalls, listener, boundTo, reuseAtBind,
                   allow_reuse_address, bindAttempts, error, message, prompted,
                   ackReceived, served, servedMissing, cleanupRan,
                   rmtreeFailed, others>>

\* interpreter shutdown: the registered hooks run, daemon threads are dropped
AtExit ==
    /\ pc = "exiting"
    /\ pc' = "exited"
    /\ IF \E i \in 1..Len(hooks) : hooks[i] = "cleanup_temp"
       THEN \E ok \in BOOLEAN :
              LET r == cleanup_temp(temp_dir, fs, ok) IN
                /\ fs' = r.files
                /\ rmtreeFailed' = r.failed
                /\ cleanupRan' = TRUE
       ELSE UNCHANGED <<fs, rmtreeFailed, cleanupRan>>
    /\ launcher' = (IF launcher = "sleeping" THEN "abandoned" ELSE launcher)
    /\ UNCHANGED <<frozen, nItems, hooks, temp_dir, bundled_path, serve_path,
                   cwd, copied, mkdtempCalls, listener, boundTo, reuseAtBind,
                   allow_reuse_address, bindAttempts, error, message, prompted,
                   ackReceived, exitCode, served, servedMissing,
                   threads, launches, startedBound, handlerVars, mimeVars>>

\* the thread body open_browser: time.sleep(delay) is over, webbrowser.open(url)
\* succeeds or fails; nothing is reported to the main thread
open_browser ==
    /\ launcher = "sleeping"
    /\ pc # "exited"
    /\ launches' = launches + 1
    /\ \E ok \in BOOLEAN : launcher' = (IF ok THEN "opened" ELSE "failed")
    /\ UNCHANGED <<envVars, mainVars, threads, startedBound, handlerVars,
                   mimeVars>>

Next ==
    \/ RegisterCleanup
    \/ Locate
    \/ ExtractUnfrozen
    \/ Mkdtemp
    \/ CopyItem
    \/ CopyFail
    \/ ExtractReturn
    \/ Chdir
    \/ Bind
    \/ SetAllowReuse
    \/ open_browser_delayed
    \/ HandleRequest
    \/ KeyboardInterrupt
    \/ PrintStopped
    \/ ReportOSError
    \/ PressEnter
    \/ InputRaises
    \/ AtExit
    \/ open_browser

Spec == Init /\ [][Next]_vars

TypeOK ==
    /\ frozen \in BOOLEAN
    /\ pc \in {"start", "extract", "extract_check", "copy", "chdir", "bind",
               "bound", "launch", "serving", "except_kbd", "except_oserror",
               "input", "exiting", "exited"}
    /\ launcher \in {"none", "sleeping", "opened", "failed", "abandoned"}
    /\ exitCode \in {-1, 0, 1}


\* ======================================================================
\* QuietHandler: response headers
\* ======================================================================
ACAO == "Access-Control-Allow-Origin: *"
CACHE == "Cache-Control: no-store, no-cache, must-revalidate"
BLANK == ""
BODY == "<body>"

Methods == {"GET", "HEAD", "POST"}
\* the version word of the request line; "" is a request line without one
Versions == {"", "HTTP/1.0", "HTTP/1.1", "HTTP/2.0"}

\* parse_request: self.request_version starts as default_request_version and
\* is assigned the request line's version only after that version was accepted
request_version(r) ==
    IF r.version \in {"HTTP/1.0", "HTTP/1.1"} THEN r.version ELSE "HTTP/0.9"
\* what the request path resolves to under the Serve Root; "fresh" is an
\* existing file requested with an If-Modified-Since that is not older
Targets == {"file", "missing", "dir_noslash", "fresh"}

\* status the baseline answers with: parse_request rejects version 2.0 and a
\* two-word request line whose command is not GET; a command without
\* do_<command> is unsupported; send_head decides the rest
status(r) ==
    IF r.version = "HTTP/2.0" THEN 505
    ELSE IF r.version = "" /\ r.method # "GET" THEN 400
    ELSE IF r.method = "POST" THEN 501
    ELSE CASE r.target = "file" -> 200
           [] r.target = "missing" -> 404
           [] r.target = "dir_noslash" -> 301
           [] OTHER -> 304

\* BaseHTTPRequestHandler.send_header: nothing is buffered for HTTP/0.9
send_header(b, version, line) ==
    IF version # "HTTP/0.9" THEN Append(b, line) ELSE b

\* send_response_only: the status line
status_line(code) ==
    CASE code = 200 -> "HTTP/1.0 200 OK"
      [] code = 301 -> "HTTP/1.0 301 Moved Permanently"
      [] code = 304 -> "HTTP/1.0 304 Not Modified"
      [] code = 400 -> "HTTP/1.0 400 Bad request"
      [] code = 404 -> "HTTP/1.0 404 File not found"
      [] code = 505 -> "HTTP/1.0 505 HTTP Version Not Supported"
      [] OTHER -> "HTTP/1.0 501 Unsupported method"

\* BaseHTTPRequestHandler.send_response: status line, Server, Date
send_response(b, version, code) ==
    IF version # "HTTP/0.9"
    THEN send_header(send_header(Append(b, status_line(code)),
                                 version, "Server"), version, "Date")
    ELSE b

\* the headers the baseline sends between send_response and end_headers
baseline_headers(code) ==
    CASE code = 200 -> <<"Content-type", "Content-Length", "Last-Modified">>
      [] code = 301 -> <<"Location", "Content-Length">>
      [] code = 304 -> <<>>
      [] OTHER -> <<"Connection", "Content-Type", "Content-Length">>

RECURSIVE send_headers(_, _, _)
send_headers(b, version, hs) ==
    IF hs = <<>> THEN b
    ELSE send_headers(send_header(b, version, Head(hs)), version, Tail(hs))

\* BaseHTTPRequestHandler.end_headers: blank line and flush, except HTTP/0.9
base_end_headers(b, w, version) ==
    IF version # "HTTP/0.9"
    THEN [buf |-> <<>>, wire |-> w \o Append(b, BLANK)]
    ELSE [buf |-> b, wire |-> w]

\* variant: the baseline's end_headers is called first
end_headers_superfirst(b, w, version) ==
    LET r == base_end_headers(b, w, version) IN
    [buf |-> send_header(send_header(r.buf, version, ACAO), version, CACHE),
     wire |-> r.wire]

\* QuietHandler.end_headers
end_headers(b, w, version) ==
    base_end_headers(send_header(send_header(b, version, ACAO), version, CACHE),
                     w, version)

\* whether a body follows the header block; send_error writes one unless
\* self.command is HEAD, and parse_request's own errors come before
\* self.command is assigned
has_body(r) ==
    LET code == status(r) IN
    CASE code = 200 -> r.method = "GET"
      [] code \in {301, 304} -> FALSE
      [] code \in {400, 505} -> TRUE
      [] OTHER -> r.method # "HEAD"

\* a state of main() in which requests are handled: unpackaged, serving
ServingMain ==
    /\ frozen = FALSE /\ nItems = 0 /\ fs = {script_dir}
    /\ pc = "serving"
    /\ hooks = <<"cleanup_temp">>
    /\ temp_dir = None
    /\ bundled_path = script_dir
    /\ serve_path = script_dir
    /\ cwd = script_dir
    /\ copied = 0
    /\ mkdtempCalls = 0
    /\ listener = TRUE
    /\ boundTo = <<HOST, PORT>>
    /\ reuseAtBind = FALSE
    /\ allow_reuse_address = TRUE
    /\ bindAttempts = 1
    /\ error = NoError
    /\ message = "none"
    /\ prompted = FALSE
    /\ ackReceived = FALSE
    /\ exitCode = -1
    /\ served = 0
    /\ servedMissing = FALSE
    /\ cleanupRan = FALSE
    /\ rmtreeFailed = FALSE
    /\ threads = 1
    /\ launcher = "sleeping"
    /\ launches = 0
    /\ startedBound = TRUE

InitHandlerSpec == ServingMain /\ InitHandler /\ InitMimeIdle

notHandler == <<envVars, mainVars, threadVars, mimeVars>>

\* handle_one_request: a request line is read and parsed
parse_request ==
    /\ hpc \in {"idle", "done"}
    /\ \E m \in Methods, v \in Versions, t \in Targets :
          req' = [method |-> m, version |-> v, target |-> t]
    /\ buf' = <<>>
    /\ wire' = <<>>
    /\ nBaseline' = 0
    /\ hpc' = "parsed"
    /\ UNCHANGED notHandler

\* send_head / send_error: self.send_response(code)
SendResponse ==
    /\ hpc = "parsed"
    /\ buf' = send_response(buf, request_version(req), status(req))
    /\ hpc' = "responded"
    /\ UNCHANGED <<req, wire, nBaseline, notHandler>>

\* send_head / send_error: the baseline's self.send_header calls
SendBaselineHeaders ==
    /\ hpc = "responded"
    /\ buf' = send_headers(buf, request_version(req), baseline_headers(status(req)))
    /\ nBaseline' = Len(buf')
    /\ hpc' = "headers"
    /\ UNCHANGED <<req, wire, notHandler>>

\* self.end_headers(), which is QuietHandler.end_headers
EndHeaders ==
    /\ hpc = "headers"
    /\ LET r == end_headers(buf, wire, request_version(req)) IN
         /\ buf' = r.buf
         /\ wire' = r.wire
    /\ hpc' = "flushed"
    /\ UNCHANGED <<req, nBaseline, notHandler>>

\* the body is written if the response has one
WriteBody ==
    /\ hpc = "flushed"
    /\ wire' = (IF has_body(req) THEN Append(wire, BODY) ELSE wire)
    /\ hpc' = "done"
    /\ UNCHANGED <<req, buf, nBaseline, notHandler>>

NextHandler ==
    \/ parse_request
    \/ SendResponse
    \/ SendBaselineHeaders
    \/ EndHeaders
    \/ WriteBody

SpecHandler == InitHandlerSpec /\ [][NextHandler]_vars

\* ======================================================================
\* QuietHandler.guess_type
\* ======================================================================
MaxStemLen == 2      \* characters of the file name in front of the extension

LowerLetters == <<"a", "b", "c", "d", "e", "f", "g", "h", "i", "j", "k", "l",
                  "m", "n", "o", "p", "q", "r", "s", "t", "u", "v", "w", "x",
                  "y", "z">>
UpperLetters == <<"A", "B", "C", "D", "E", "F", "G", "H", "I", "J", "K", "L",
                  "M", "N", "O", "P", "Q", "R", "S", "T", "U", "V", "W", "X",
                  "Y", "Z">>

\* str.lower, one character
lower_char(c) ==
    IF \E i \in 1..26 : UpperLetters[i] = c
    THEN LowerLetters[CHOOSE i \in 1..26 : UpperLetters[i] = c]
    ELSE c
\* str.lower
lower(str) == [i \in 1..Len(str) |-> lower_char(str[i])]

upper_char(c) ==
    IF \E i \in 1..26 : LowerLetters[i] = c
    THEN UpperLetters[CHOOSE i \in 1..26 : LowerLetters[i] = c]
    ELSE c
upper(str) == [i \in 1..Len(str) |-> upper_char(str[i])]
capitalize(str) ==
    [i \in 1..Len(str) |-> IF i = 2 THEN upper_char(str[i]) ELSE str[i]]

\* str.rfind, 1-based; 0 when absent
rfind(str, c) ==
    IF \E i \in 1..Len(str) : str[i] = c
    THEN CHOOSE i \in 1..Len(str) :
            str[i] = c /\ \A j \in (i + 1)..Len(str) : str[j] # c
    ELSE 0

\* genericpath._splitext: the loop that skips the leading dots of the name
RECURSIVE splitext_scan(_, _, _)
splitext_scan(p, filenameIndex, dotIndex) ==
    IF filenameIndex < dotIndex
    THEN IF p[filenameIndex] # "."
         THEN <<SubSeq(p, 1, dotIndex - 1), SubSeq(p, dotIndex, Len(p))>>
         ELSE splitext_scan(p, filenameIndex + 1, dotIndex)
    ELSE <<p, <<>>>>

\* os.path.splitext
splitext(p) ==
    LET sepIndex == rfind(p, "/")
        dotIndex == rfind(p, ".")
    IN IF dotIndex > sepIndex
       THEN splitext_scan(p, sepIndex + 1, dotIndex)
       ELSE <<p, <<>>>>

\* the dict mime_types of guess_type
mime_types == <<
    <<<<".", "h", "t", "m", "l">>, "text/html">>,
    <<<<".", "h", "t", "m">>, "text/html">>,
    <<<<".", "c", "s", "s">>, "text/css">>,
    <<<<".", "j", "s">>, "application/javascript">>,
    <<<<".", "m", "j", "s">>, "application/javascript">>,
    <<<<".", "j", "s", "o", "n">>, "application/json">>,
    <<<<".", "p", "n", "g">>, "image/png">>,
    <<<<".", "j", "p", "g">>, "image/jpeg">>,
    <<<<".", "j", "p", "e", "g">>, "image/jpeg">>,
    <<<<".", "g", "i", "f">>, "image/gif">>,
    <<<<".", "s", "v", "g">>, "image/svg+xml">>,
    <<<<".", "i", "c", "o">>, "image/x-icon">>,
    <<<<".", "w", "o", "f", "f">>, "font/woff">>,
    <<<<".", "w", "o", "f", "f", "2">>, "font/woff2">>,
    <<<<".", "t", "t", "f">>, "font/ttf">>,
    <<<<".", "e", "o", "t">>, "application/vnd.ms-fontobject">>,
    <<<<".", "m", "p", "3">>, "audio/mpeg">>,
    <<<<".", "w", "a", "v">>, "audio/wav">>,
    <<<<".", "m", "p", "4">>, "video/mp4">>,
    <<<<".", "w", "e", "b", "m">>, "video/webm">>,
    <<<<".", "w", "e", "b", "p">>, "image/webp">>,
    <<<<".", "w", "a", "s", "m">>, "application/wasm">>
>>

\* dict.get
dict_get(d, key, default) ==
    IF \E i \in 1..Len(d) : d[i][1] = key
    THEN d[CHOOSE i \in 1..Len(d) : d[i][1] = key][2]
    ELSE default

\* SimpleHTTPRequestHandler.guess_type: the extension, then the lower-cased
\* extension, looked up in the interpreter's own map; application/octet-stream
\* when unknown
extensions_map == <<
    <<<<".", "h", "t", "m", "l">>, "text/html">>,
    <<<<".", "h", "t", "m">>, "text/html">>,
    <<<<".", "c", "s", "s">>, "text/css">>,
    <<<<".", "j", "s">>, "text/javascript">>,
    <<<<".", "m", "j", "s">>, "text/javascript">>,
    <<<<".", "j", "s", "o", "n">>, "application/json">>,
    <<<<".", "p", "n", "g">>, "image/png">>,
    <<<<".", "j", "p", "g">>, "image/jpeg">>,
    <<<<".", "j", "p", "e", "g">>, "image/jpeg">>,
    <<<<".", "g", "i", "f">>, "image/gif">>,
    <<<<".", "s", "v", "g">>, "image/svg+xml">>,
    <<<<".", "i", "c", "o">>, "image/vnd.microsoft.icon">>,
    <<<<".", "w", "a", "v">>, "audio/x-wav">>,
    <<<<".", "m", "p", "3">>, "audio/mpeg">>,
    <<<<".", "m", "p", "4">>, "video/mp4">>,
    <<<<".", "w", "e", "b", "m">>, "video/webm">>,
    <<<<".", "t", "x", "t">>, "text/plain">>,
    <<<<".", "x", "y", "z">>, "chemical/x-xyz">>
>>
base_guess_type(path) ==
    LET ext == splitext(path)[2] IN
    dict_get(extensions_map, ext,
             dict_get(extensions_map, lower(ext), "application/octet-stream"))

\* variant: the extension is not lower-cased
guess_type_nolower(path) ==
    LET ext == splitext(path)[2] IN
    dict_get(mime_types, ext, base_guess_type(path))

\* QuietHandler.guess_type
guess_type(path) ==
    LET ext == lower(splitext(path)[2]) IN
    dict_get(mime_types, ext, base_guess_type(path))

\* inputs: directory part, file name stem, extension in three spellings
StemChars == {"a", "."}
RECURSIVE SeqsUpTo(_, _)
SeqsUpTo(S, n) ==
    IF n = 0 THEN {<<>>}
    ELSE LET shorter == SeqsUpTo(S, n - 1) IN
         shorter \cup {Append(q, c) : q \in shorter, c \in S}
DirParts == {<<>>, <<"d", ".", "x", "/">>, <<"a", ".", "j", "s", "/">>}
OtherExts == {<<>>, <<".">>, <<".", "t", "x", "t">>, <<".", "x", "y", "z">>,
              <<".", "j", "s", "x">>, <<".", "j">>, <<".", "m", "d">>,
              <<".", "j", "s", "/">>}
TableExts == {mime_types[i][1] : i \in 1..Len(mime_types)}
ExtInputs ==
    UNION {{e, upper(e), capitalize(e)} : e \in TableExts \cup OtherExts}
PathInputs ==
    {d \o st \o e : d \in DirParts, st \in SeqsUpTo(StemChars, MaxStemLen),
                    e \in ExtInputs}

InitMime ==
    /\ ServingMain /\ InitHandler
    /\ gpath \in PathInputs
    /\ gtype = "none"

\* send_head: ctype = self.guess_type(path)
GuessType ==
    /\ gtype = "none"
    /\ gtype' = guess_type(gpath)
    /\ UNCHANGED <<envVars, mainVars, threadVars, handlerVars, gpath>>

NextMime == GuessType

SpecMime == InitMime /\ [][NextMime]_vars

\* ======================================================================
\* Properties of the life cycle (checked under Spec)
\* ======================================================================
Exited == pc = "exited"
BindFailed == error # NoError
HookRegistered == \E i \in 1..Len(hooks) : hooks[i] = "cleanup_temp"

\* C2 as stated: in packaged mode, once the process has exited the temporary
\* directory the Stager created no longer exists, on every exit path
C2_TempGoneAfterExit ==
    (Exited /\ frozen /\ mkdtempCalls > 0) => ~isdir(fs, TempName)

\* C2 amended: the hook is registered before the directory is created, it has
\* run on every exit path that follows the creation, and after exit the
\* directory is gone unless the recursive deletion itself failed (swallowed)
C2_TempGoneUnlessRmtreeFailed ==
    /\ mkdtempCalls > 0 => (frozen /\ HookRegistered /\ temp_dir = TempName)
    /\ (Exited /\ mkdtempCalls > 0) =>
          /\ cleanupRan
          /\ isdir(fs, TempName) <=> rmtreeFailed

C2_Witness ==
    /\ Exited /\ frozen /\ mkdtempCalls = 1
    /\ copied < nItems /\ exitCode = 1 /\ bindAttempts = 0
    /\ cleanupRan /\ ~isdir(fs, TempName)

\* C3: whenever the listener is bound, address reuse was in effect on the
\* socket at the moment bind() ran
C3_ReuseInEffectAtBind ==
    listener => reuseAtBind

C5_ExitCodeDistinguishes ==
    Exited =>
      /\ (~BindFailed /\ bindAttempts = 1) => exitCode = 0
      /\ (BindFailed /\ message # "none" /\ ackReceived) => exitCode # 0

\* C7: the Locator returns an existing directory: unpackaged, the first
\* existing one of build, dist, public, www, out, static, static_files beside
\* the program, or the program's directory when none exists; packaged,
\* _MEIPASS/static_files when it is a directory, else _MEIPASS
C7Order == <<"build", "dist", "public", "www", "out", "static", "static_files">>
C7_LocatorResult ==
    pc \notin {"start", "extract"} =>
      /\ isdir(fs, bundled_path)
      /\ ~frozen =>
           \/ \E i \in 1..7 :
                /\ bundled_path = <<"script_dir", C7Order[i]>>
                /\ \A j \in 1..(i - 1) : <<"script_dir", C7Order[j]>> \notin fs
           \/ /\ bundled_path = <<"script_dir">>
              /\ \A j \in 1..7 : <<"script_dir", C7Order[j]>> \notin fs
      /\ frozen =>
           \/ /\ bundled_path = <<"_MEIPASS", "static_files">>
           \/ /\ bundled_path = <<"_MEIPASS">>
              /\ <<"_MEIPASS", "static_files">> \notin fs

C7_Witness ==
    /\ ~frozen /\ pc = "chdir"
    /\ bundled_path = <<"script_dir", "dist">>
    /\ <<"script_dir", "build">> \notin fs
    /\ <<"script_dir", "static">> \in fs

\* C8: the temporary directory is created at most once and only when
\* packaged; unpackaged the Stager returns the Locator's path, creates and
\* copies nothing and the exit hook removes nothing; packaged the Serve Root
\* is the temporary directory; the Serve Root never changes once set
C8_StagerState ==
    /\ mkdtempCalls <= 1
    /\ mkdtempCalls > 0 => frozen
    /\ ~frozen =>
         /\ temp_dir = None /\ copied = 0
         /\ ~isdir(fs, TempName)
         /\ serve_path # None => serve_path = bundled_path
         /\ bundled_path # None => isdir(fs, bundled_path)
    /\ (frozen /\ serve_path # None) =>
         /\ serve_path = TempName /\ serve_path # bundled_path
         /\ mkdtempCalls = 1
C8_StagerStep ==
    /\ serve_path # None => serve_path' = serve_path
    /\ ~frozen => fs' = fs
    /\ fs' # fs => (fs' = fs \cup {temp_dir'} \/ fs' = fs \ {temp_dir})
C8_Stager == [](C8_StagerState) /\ [][C8_StagerStep]_vars

C8_Witness ==
    /\ Exited /\ ~frozen /\ cleanupRan
    /\ serve_path = <<"script_dir", "build">> /\ isdir(fs, serve_path)

\* C9: the temporary directory is never deleted while the accept loop runs:
\* the loop has stopped and the listener is closed before cleanup runs, and
\* no request is handled from a Serve Root that does not exist
C9_State ==
    /\ ~servedMissing
    /\ pc = "serving" => (listener /\ isdir(fs, serve_path) /\ ~cleanupRan)
    /\ cleanupRan => (~listener /\ Exited)
C9_Step ==
    /\ (cleanupRan' /\ ~cleanupRan) => (pc = "exiting" /\ ~listener)
    /\ (\E d \in fs : d \notin fs') => (pc = "exiting" /\ ~listener)
    /\ (pc = "serving" /\ pc' # "serving") => (~listener' /\ fs' = fs)
C9_NoDeleteWhileServing == [](C9_State) /\ [][C9_Step]_vars

C9_Witness ==
    /\ Exited /\ frozen /\ ~BindFailed /\ served > 0
    /\ cleanupRan /\ ~isdir(fs, TempName) /\ ~listener

\* C10: exactly one launcher thread in a run whose bind succeeded and none
\* otherwise; it is started only with the listener bound, launches at most
\* once, main enters the accept loop while the thread still sleeps, and a
\* launch (failed, successful or never made) leaves the server's state alone
C10_State ==
    /\ threads <= 1 /\ launches <= 1 /\ launches <= threads
    /\ BindFailed => (threads = 0 /\ launcher = "none")
    /\ (pc \in {"serving", "except_kbd"} \/ served > 0) => threads = 1
    /\ (Exited /\ bindAttempts = 1 /\ ~BindFailed) => threads = 1
    /\ threads > 0 => (startedBound /\ bindAttempts = 1 /\ ~BindFailed)
    /\ threads = 0 <=> launcher = "none"
    /\ launcher \in {"opened", "failed"} <=> launches = 1
C10_Step ==
    /\ (pc # "serving" /\ pc' = "serving") =>
          (launcher' = "sleeping" /\ launches' = 0 /\ threads' = 1)
    /\ launches' # launches => UNCHANGED <<mainVars, envVars>>
C10_Launcher == [](C10_State) /\ [][C10_Step]_vars

C10_Witness ==
    /\ pc = "serving" /\ listener /\ launcher = "failed"
    /\ served = MaxRequests


\* ======================================================================
\* Properties of the request handler (checked under SpecHandler, SpecMime)
\* ======================================================================
Occurrences(w, line) == {i \in 1..Len(w) : w[i] = line}
HeaderBlockEnd(w) ==
    IF Occurrences(w, BLANK) = {} THEN 0
    ELSE CHOOSE i \in Occurrences(w, BLANK) :
            \A j \in Occurrences(w, BLANK) : i <= j
HeadersInPlace(w, nBase) ==
    /\ HeaderBlockEnd(w) > 0
    /\ Cardinality(Occurrences(w, ACAO)) = 1
    /\ Cardinality(Occurrences(w, CACHE)) = 1
    /\ \A i \in Occurrences(w, ACAO) \cup Occurrences(w, CACHE) :
          nBase < i /\ i < HeaderBlockEnd(w)
Responded == hpc \in {"flushed", "done"}

\* C1 as stated: every response carries exactly one Access-Control-Allow-Origin
\* and exactly one Cache-Control header, after the baseline's headers and
\* before the blank line that ends the header block
C1_HeadersOnEveryResponse ==
    Responded => HeadersInPlace(wire, nBaseline)

\* C1 amended: every response to a request line that ends in the version
\* HTTP/1.0 or HTTP/1.1 has the two headers, once each, after the baseline's
\* headers and before the blank line; the response to a request line without a
\* version (HTTP/0.9) has no header block
C1_HeadersOnVersionedResponse ==
    Responded =>
      IF req.version \in {"HTTP/1.0", "HTTP/1.1"}
      THEN HeadersInPlace(wire, nBaseline)
      ELSE req.version = "" => \A i \in 1..Len(wire) : wire[i] = BODY

C1_Witness ==
    /\ hpc = "done"
    /\ req = [method |-> "GET", version |-> "HTTP/1.0", target |-> "missing"]
    /\ wire = <<"HTTP/1.0 404 File not found", "Server", "Date", "Connection",
                "Content-Type", "Content-Length", ACAO, CACHE, BLANK, BODY>>

\* the table of section 6 of the specification, "absent" for anything else
C6_Table(ext) ==
    CASE ext \in {<<".", "h", "t", "m", "l">>, <<".", "h", "t", "m">>} -> "text/html"
      [] ext \in {<<".", "c", "s", "s">>} -> "text/css"
      [] ext \in {<<".", "j", "s">>, <<".", "m", "j", "s">>} -> "application/javascript"
      [] ext \in {<<".", "j", "s", "o", "n">>} -> "application/json"
      [] ext \in {<<".", "p", "n", "g">>} -> "image/png"
      [] ext \in {<<".", "j", "p", "g">>, <<".", "j", "p", "e", "g">>} -> "image/jpeg"
      [] ext \in {<<".", "g", "i", "f">>} -> "image/gif"
      [] ext \in {<<".", "s", "v", "g">>} -> "image/svg+xml"
      [] ext \in {<<".", "i", "c", "o">>} -> "image/x-icon"
      [] ext \in {<<".", "w", "o", "f", "f">>} -> "font/woff"
      [] ext \in {<<".", "w", "o", "f", "f", "2">>} -> "font/woff2"
      [] ext \in {<<".", "t", "t", "f">>} -> "font/ttf"
      [] ext \in {<<".", "e", "o", "t">>} -> "application/vnd.ms-fontobject"
      [] ext \in {<<".", "m", "p", "3">>} -> "audio/mpeg"
      [] ext \in {<<".", "w", "a", "v">>} -> "audio/wav"
      [] ext \in {<<".", "m", "p", "4">>} -> "video/mp4"
      [] ext \in {<<".", "w", "e", "b", "m">>} -> "video/webm"
      [] ext \in {<<".", "w", "e", "b", "p">>} -> "image/webp"
      [] ext \in {<<".", "w", "a", "s", "m">>} -> "application/wasm"
      [] OTHER -> "absent"

\* the extension of a path: from the last dot, when that dot follows the last
\* separator and the file name has a character other than a dot before it
C6_ExtStart(p) ==
    {i \in 1..Len(p) :
        /\ p[i] = "."
        /\ \A j \in (i + 1)..Len(p) : p[j] \notin {".", "/"}
        /\ \E k \in 1..(i - 1) :
              /\ p[k] \notin {".", "/"}
              /\ \A j \in k..i : p[j] # "/"}
C6_Ext(p) ==
    IF C6_ExtStart(p) = {} THEN <<>>
    ELSE SubSeq(p, CHOOSE i \in C6_ExtStart(p) : TRUE, Len(p))

\* C6: guess_type returns the table's type for the lower-cased extension of
\* the path when the 22-entry table has it, whatever the baseline would
\* guess, and the baseline's guess only when the table does not have it
C6_GuessType ==
    /\ Len(mime_types) = 22
    /\ Cardinality(TableExts) = 22
    /\ gtype # "none" =>
         LET expected == C6_Table(lower(C6_Ext(gpath))) IN
           IF expected # "absent"
           THEN gtype = expected
           ELSE gtype = base_guess_type(gpath)

C6_Witness ==
    /\ gpath = <<"a", ".", "j", "s", "/", "a", ".", "J", "S">>
    /\ gtype = "application/javascript"
    /\ base_guess_type(gpath) = "text/javascript"

====
